---- MODULE Spec2Model ----
(***************************************************************************)
(* State-machine model of the JAM Mission site (backend/core): the session *)
(* cart (cart_add, cart_view and its checkout), the catalog rows the cart  *)
(* resolves against, and event bookings with the availability guard.       *)
(*                                                                         *)
(* A request is modelled at the granularity at which its effects become    *)
(* visible to other requests: every ORM write commits on its own (the      *)
(* settings enable neither ATOMIC_REQUESTS nor transaction.atomic), and    *)
(* the session is read on first access and written back as a whole by the  *)
(* session middleware when the response leaves.                            *)
(***************************************************************************)
EXTENDS Integers, Sequences, FiniteSets, TLC

\* Visitor requests of one browsing session explored by the model.
MaxRequests == 3

\* Booking rows explored by the model.
MaxBookings == 2

\* Order rows placed on the product pages explored by the model.
MaxOrders == 2

\* Product and service rows the owner creates, both tables together.
MaxRows == 3

\* Newsletter signups explored by the model.
MaxSignups == 4

\* Contact messages and lease applications explored by the model, each table.
MaxMessages == 1

\* Calls of send_mail explored by the model.
MaxMail == 2

\* Request slots: Spec serves one request at a time, SpecConc two at once.
SeqReqs == {1}
ConcReqs == {1, 2}

VARIABLES
    Product,    \* core_product rows
    Order,      \* core_order rows, in insertion order
    session,    \* the stored session of the visitor
    req,        \* per request slot: position in the handler and its locals
    nreq,       \* number of visitor requests started so far
    added,      \* history: per slug, sum of the quantities added by finished cart_add requests
    Event,      \* core_event rows
    Booking,    \* core_booking rows, in insertion order
    Service,    \* core_service rows
    NewsletterSubscriber,   \* core_newslettersubscriber rows
    NOTIFICATION_EMAILS,    \* settings.NOTIFICATION_EMAILS of the deployment
    outbox,                 \* the messages handed to the mail backend, with what became of them
    ContactMessage,         \* core_contactmessage rows, in insertion order
    PreQualificationApplication     \* core_prequalificationapplication rows, in insertion order

vars == <<Product, Order, session, req, nreq, added, Event, Booking, Service,
          NewsletterSubscriber, NOTIFICATION_EMAILS, outbox, ContactMessage,
          PreQualificationApplication>>

cartVars == <<Product, Order, session, nreq, added>>

mailVars == <<NOTIFICATION_EMAILS, ContactMessage, PreQualificationApplication>>

siteVars == <<Service, NewsletterSubscriber, mailVars>>

----------------------------------------------------------------------------
(* Text inputs are sequences of one-character strings. *)

Digits == {"0", "1", "2", "3", "4", "5", "6", "7", "8", "9"}

DigitVal(c) ==
    CASE c = "0" -> 0 [] c = "1" -> 1 [] c = "2" -> 2 [] c = "3" -> 3
      [] c = "4" -> 4 [] c = "5" -> 5 [] c = "6" -> 6 [] c = "7" -> 7
      [] c = "8" -> 8 [] c = "9" -> 9

RECURSIVE DigitsVal(_)
DigitsVal(s) ==
    IF Len(s) = 0 THEN 0
    ELSE 10 * DigitsVal(SubSeq(s, 1, Len(s) - 1)) + DigitVal(s[Len(s)])

RECURSIVE LStrip(_)
LStrip(s) == IF Len(s) > 0 /\ s[1] = " " THEN LStrip(Tail(s)) ELSE s

RECURSIVE RStrip(_)
RStrip(s) ==
    IF Len(s) > 0 /\ s[Len(s)] = " " THEN RStrip(SubSeq(s, 1, Len(s) - 1)) ELSE s

\* A POST field that was not submitted.
Absent == <<"absent">>

\* Python's int() on a str: surrounding blanks, an optional sign, then digits;
\* anything else raises ValueError (ok = FALSE).
IntOfStr(s) ==
    LET t == RStrip(LStrip(s))
        signed == Len(t) > 0 /\ t[1] \in {"+", "-"}
        body == IF signed THEN Tail(t) ELSE t
        ok == Len(body) > 0 /\ \A i \in 1..Len(body) : body[i] \in Digits
    IN [ok |-> ok,
        val |-> IF ~ok THEN 0
                ELSE IF signed /\ t[1] = "-" THEN 0 - DigitsVal(body)
                ELSE DigitsVal(body)]

----------------------------------------------------------------------------
(* Python dicts as sequences of key/value pairs in insertion order. *)

EmptyDict == <<>>

DictKeys(d) == {d[i].k : i \in DOMAIN d}

DictGet(d, key, default) ==
    IF key \in DictKeys(d)
    THEN d[CHOOSE i \in DOMAIN d : d[i].k = key].v
    ELSE default

DictSet(d, key, val) ==
    IF key \in DictKeys(d)
    THEN [i \in DOMAIN d |-> IF d[i].k = key THEN [k |-> key, v |-> val] ELSE d[i]]
    ELSE Append(d, [k |-> key, v |-> val])

----------------------------------------------------------------------------
(* Catalog rows and form validation. *)

Slugs == {"fresh-eggs", "chicks"}

InitProduct ==
    { [pk |-> 1, name |-> <<"E", "g", "g", "s">>, slug |-> "fresh-eggs", price |-> 500, in_stock |-> TRUE],
      [pk |-> 2, name |-> <<"C", "h", "i", "c", "k", "s">>, slug |-> "chicks", price |-> 300, in_stock |-> TRUE] }

\* Product.objects.filter(slug=slug): slug is unique, so at most one row.
ProductsBySlug(rows, slug) == {p \in rows : p.slug = slug}

\* Faulty variant: the lookup forgets in_stock=True.
InStockBySlugAny(rows, slug) == {p \in rows : p.slug = slug}

\* Product.objects.filter(slug=slug, in_stock=True)
InStockBySlug(rows, slug) == {p \in rows : p.slug = slug /\ p.in_stock}

\* QuerySet.first() of a non-empty queryset.
First(rows) == CHOOSE p \in rows : \A q \in rows : p.pk <= q.pk

\* EmailField: one "@" with a non-empty user part and a dotted domain.
EmailValid(e) ==
    \E i \in 2..Len(e) :
        /\ e[i] = "@"
        /\ \A j \in 1..Len(e) : e[j] = "@" => j = i
        /\ \A j \in 1..Len(e) : e[j] /= " "
        /\ \E j \in (i + 2)..(Len(e) - 1) : e[j] = "."

\* forms.IntegerField of a PositiveIntegerField: required, an integer, min_value 0.
PositiveIntegerFieldValid(text) ==
    /\ text /= Absent
    /\ IntOfStr(text).ok
    /\ IntOfStr(text).val >= 0

\* OrderForm(request.POST).is_valid(): name, email and quantity are required,
\* notes is optional.
OrderFormValid(post) ==
    /\ post.name /= ""
    /\ EmailValid(post.email)
    /\ PositiveIntegerFieldValid(post.quantity)

\* The Order table's CHECK ("quantity" >= 0) of PositiveIntegerField and the
\* foreign key to the product: an insert violating either raises IntegrityError.
OrderInsertOK(rows, row) ==
    /\ row.quantity >= 0
    /\ \E p \in rows : p.pk = row.product

----------------------------------------------------------------------------
(* The session store and the cart logic of the two cart views. *)

EmptySession == [hasCart |-> FALSE, cart |-> EmptyDict]

\* request.session.get('cart', {})
SessionCart(sess) == IF sess.hasCart THEN sess.cart ELSE EmptyDict

\* cart_add: qty = int(request.POST.get('quantity', 1)), 1 on TypeError/ValueError.
CartAddQty(post) ==
    IF post.quantity = Absent THEN 1
    ELSE IF IntOfStr(post.quantity).ok THEN IntOfStr(post.quantity).val
    ELSE 1

\* Faulty variant: the quantity replaces the entry instead of adding to it.
CartAfterAddReplacing(cart, slug, qty) == DictSet(cart, slug, qty)

\* cart_add: cart[slug] = cart.get(slug, 0) + qty
CartAfterAdd(cart, slug, qty) == DictSet(cart, slug, DictGet(cart, slug, 0) + qty)

\* cart_view: one item per cart entry whose slug resolves to an in-stock product.
RECURSIVE ResolveItems(_, _)
ResolveItems(cart, rows) ==
    IF Len(cart) = 0 THEN <<>>
    ELSE LET e == cart[1]
             found == InStockBySlug(rows, e.k)
             rest == ResolveItems(Tail(cart), rows)
         IN IF found /= {}
            THEN <<[product |-> First(found), quantity |-> e.v,
                    subtotal |-> First(found).price * e.v]>> \o rest
            ELSE rest

\* cart_view: total += subtotal for every item appended.
RECURSIVE ItemsTotal(_)
ItemsTotal(items) ==
    IF Len(items) = 0 THEN 0 ELSE items[1].subtotal + ItemsTotal(Tail(items))

\* Faulty variant: the checkout does not ask whether any item resolved.
CheckoutRunsIgnoringItems(method, items, post) ==
    method = "POST" /\ OrderFormValid(post)

\* Faulty variant: the checkout does not ask for a POST with a valid form.
CheckoutRunsAnyMethod(method, items, post) == Len(items) > 0

\* cart_view: the condition under which the checkout branch runs.
CheckoutRuns(method, items, post) ==
    method = "POST" /\ Len(items) > 0 /\ OrderFormValid(post)

\* Faulty variant: the row takes the quantity field of the form, not the cart's.
OrderRowFormQuantity(item, post, id) ==
    [product |-> item.product.pk, name |-> post.name, email |-> post.email,
     quantity |-> IntOfStr(post.quantity).val, notes |-> post.notes,
     status |-> "pending", req |-> id]

\* cart_view: the row Order.objects.create() inserts for one item.
OrderRow(item, post, id) ==
    [product |-> item.product.pk, name |-> post.name, email |-> post.email,
     quantity |-> item.quantity, notes |-> post.notes, status |-> "pending",
     req |-> id]

\* cart_view: request.session['cart'] = {}
ClearedCart(cart) == EmptyDict

----------------------------------------------------------------------------
(* Events, bookings and the availability guard. *)

EventSlugs == {"harvest-fest"}

\* The capacities the owner gives the event.
Capacities == {0, 2, 3}

InitEvent ==
    { [pk |-> 1, title |-> <<"F", "e", "s", "t">>, slug |-> "harvest-fest",
       capacity |-> 3, is_active |-> TRUE] }

\* Booking.STATUS_CHOICES
BOOKING_STATUS_CHOICES == {"pending", "confirmed", "rejected", "paid", "cancelled"}

\* Faulty variant: the lookup forgets is_active=True.
ActiveEventsBySlugAny(rows, slug) == {e \in rows : e.slug = slug}

\* get_object_or_404(Event, slug=slug, is_active=True): the matching rows.
ActiveEventsBySlug(rows, slug) == {e \in rows : e.slug = slug /\ e.is_active}

\* Event.objects.filter(slug=slug)
EventsBySlug(rows, slug) == {e \in rows : e.slug = slug}

RECURSIVE SumTickets(_)
SumTickets(bookings) ==
    IF Len(bookings) = 0 THEN 0 ELSE bookings[1].tickets + SumTickets(Tail(bookings))

\* Faulty variant: the sum counts the bookings of every status.
tickets_sold_any_status(event, bookings) ==
    SumTickets(SelectSeq(bookings, LAMBDA b : b.event = event.pk))

\* Event.tickets_sold: tickets of the event's bookings that are confirmed or paid.
tickets_sold(event, bookings) ==
    SumTickets(SelectSeq(bookings,
        LAMBDA b : b.event = event.pk /\ b.status \in {"confirmed", "paid"}))

Max(a, b) == IF a >= b THEN a ELSE b

\* Event.available_tickets
available_tickets(event, bookings) ==
    Max(event.capacity - tickets_sold(event, bookings), 0)

\* forms.DateField: required, a calendar date <<year, month, day>>.
DateValid(d) ==
    /\ d /= Absent
    /\ Len(d) = 3
    /\ d[2] \in 1..12
    /\ d[3] \in 1..31

FieldError(field, text) == [field |-> field, text |-> text, n |-> 0]

\* forms.IntegerField of a PositiveIntegerField: its error, if any.
PositiveIntegerFieldErrors(field, text) ==
    IF text = Absent \/ Len(RStrip(LStrip(text))) = 0
    THEN {FieldError(field, "This field is required.")}
    ELSE IF ~IntOfStr(text).ok
    THEN {FieldError(field, "Enter a whole number.")}
    ELSE IF IntOfStr(text).val < 0
    THEN {FieldError(field, "Ensure this value is greater than or equal to 0.")}
    ELSE {}

\* BookingForm(request.POST).errors: name, email, date and tickets are
\* required, notes is optional.
BookingFormErrors(post) ==
    (IF post.name = "" THEN {FieldError("name", "This field is required.")} ELSE {})
    \cup (IF EmailValid(post.email) THEN {}
          ELSE {FieldError("email", "Enter a valid email address.")})
    \cup (IF DateValid(post.date) THEN {} ELSE {FieldError("date", "Enter a valid date.")})
    \cup PositiveIntegerFieldErrors("tickets", post.tickets)

\* Booking.event is nullable: the key of a booking without an event.
None == 0

\* form.save(commit=False) with the event attached and the model's defaults.
BookingRow(post, eventPk) ==
    [name |-> post.name, email |-> post.email, date |-> post.date,
     tickets |-> IntOfStr(post.tickets).val, event |-> eventPk,
     notes |-> post.notes, status |-> "pending"]

\* Faulty variant: the guard compares with the capacity, not with what is left of it.
ExceedsAvailableIgnoringSold(requested, event, bookings) ==
    requested > event.capacity

\* event_detail: the guard that rejects the booking.
ExceedsAvailable(requested, event, bookings) ==
    requested > available_tickets(event, bookings)

\* event_detail: form.add_error('tickets', f'Only {available} tickets are available.')
OnlyAvailableError(event, bookings) ==
    [field |-> "tickets", text |-> "Only {n} tickets are available.",
     n |-> available_tickets(event, bookings)]

----------------------------------------------------------------------------
(* Slugs of products and services. *)

UpperCase ==
    <<"A", "B", "C", "D", "E", "F", "G", "H", "I", "J", "K", "L", "M",
      "N", "O", "P", "Q", "R", "S", "T", "U", "V", "W", "X", "Y", "Z">>

LowerCase ==
    <<"a", "b", "c", "d", "e", "f", "g", "h", "i", "j", "k", "l", "m",
      "n", "o", "p", "q", "r", "s", "t", "u", "v", "w", "x", "y", "z">>

\* str.lower() of one ASCII character.
Lower(c) ==
    IF \E i \in DOMAIN UpperCase : UpperCase[i] = c
    THEN LowerCase[CHOOSE i \in DOMAIN UpperCase : UpperCase[i] = c]
    ELSE c

\* The regular expression class \w on ASCII text.
WordChar(c) ==
    \/ \E i \in DOMAIN LowerCase : LowerCase[i] = c \/ UpperCase[i] = c
    \/ c \in Digits
    \/ c = "_"

\* re.sub(r"[-\s]+", "-", text): every run of hyphens and blanks becomes one hyphen.
RECURSIVE HyphenateRuns(_)
HyphenateRuns(text) ==
    IF Len(text) = 0 THEN <<>>
    ELSE IF text[1] \in {"-", " "}
    THEN IF Len(text) > 1 /\ text[2] \in {"-", " "}
         THEN HyphenateRuns(Tail(text))
         ELSE <<"-">> \o HyphenateRuns(Tail(text))
    ELSE <<text[1]>> \o HyphenateRuns(Tail(text))

\* str.strip("-_")
RECURSIVE StripHyphens(_)
StripHyphens(text) ==
    IF Len(text) > 0 /\ text[1] \in {"-", "_"} THEN StripHyphens(Tail(text))
    ELSE IF Len(text) > 0 /\ text[Len(text)] \in {"-", "_"}
    THEN StripHyphens(SubSeq(text, 1, Len(text) - 1))
    ELSE text

\* django.utils.text.slugify on ASCII text: lower case, every character
\* that is not a word character, a blank or a hyphen removed, runs of blanks
\* and hyphens turned into one hyphen, hyphens and underscores stripped
\* from both ends.
slugify(value) ==
    StripHyphens(HyphenateRuns(
        SelectSeq([i \in DOMAIN value |-> Lower(value[i])],
                  LAMBDA c : WordChar(c) \/ c \in {"-", " "})))

\* str(counter) of a natural number.
RECURSIVE StrOfNat(_)
StrOfNat(n) ==
    IF n < 10 THEN <<CHOOSE c \in Digits : DigitVal(c) = n>>
    ELSE StrOfNat(n \div 10) \o <<CHOOSE c \in Digits : DigitVal(c) = n % 10>>

\* Faulty variant: the suffix is one more than the counter.
SuffixedOneMore(slug_base, counter) == slug_base \o <<"-">> \o StrOfNat(counter + 1)

\* f"{slug_base}-{counter}"
\* Faulty variant: the suffix does not follow the counter.
SuffixedFirstOnly(slug_base, counter) == slug_base \o <<"-">> \o StrOfNat(1)

Suffixed(slug_base, counter) == slug_base \o <<"-">> \o StrOfNat(counter)

\* Faulty variant: the lookup does not exclude the instance's own row.
SlugTakenBySelfToo(rows, slug, pk) == \E x \in rows : x.slug = slug

\* Model.objects.filter(slug=slug).exclude(pk=pk).exists()
SlugTaken(rows, slug, pk) == \E x \in rows : x.slug = slug /\ x.pk /= pk

\* The while loop of _unique_slugify from a given counter on.
RECURSIVE UniqueSlugFrom(_, _, _, _, _)
UniqueSlugFrom(rows, pk, slug_base, slug, counter) ==
    IF SlugTaken(rows, slug, pk)
    THEN UniqueSlugFrom(rows, pk, slug_base, Suffixed(slug_base, counter), counter + 1)
    ELSE slug

\* _unique_slugify(instance, value): the slug it assigns to the instance.
_unique_slugify(rows, pk, value) ==
    UniqueSlugFrom(rows, pk, slugify(value), slugify(value), 1)

\* Faulty variant: the slug is derived on every save.
pre_save_always(rows, instance) ==
    [instance EXCEPT !.slug = _unique_slugify(rows, instance.pk, instance.name)]

\* set_product_slug, set_service_slug: the instance as pre_save leaves it.
pre_save(rows, instance) ==
    IF Len(instance.slug) = 0
    THEN [instance EXCEPT !.slug = _unique_slugify(rows, instance.pk, instance.name)]
    ELSE instance

\* set_event_slug: the event as pre_save leaves it.
pre_save_event(rows, instance) ==
    IF Len(instance.slug) = 0
    THEN [instance EXCEPT !.slug = _unique_slugify(rows, instance.pk, instance.title)]
    ELSE instance

\* The key the database gives a new row.
NextPk(rows) == IF rows = {} THEN 1 ELSE (CHOOSE x \in rows : \A y \in rows : x.pk >= y.pk).pk + 1

\* Faulty variant: the table has no unique index on slug.
UniqueSlugUnchecked(rows, row) == TRUE

\* The unique index on slug: whether writing the row keeps it.
UniqueSlugOK(rows, row) == \A x \in rows : x.pk /= row.pk => x.slug /= row.slug

\* CharField.clean of the name field: blanks stripped from both ends.
CleanName(name) == RStrip(LStrip(name))

\* EventForm: the title is required.
EventFormErrors(post) ==
    IF Len(CleanName(post.title)) = 0
    THEN {FieldError("title", "This field is required.")}
    ELSE {}

\* ProductForm / ServiceForm: the name is required.
CatalogFormErrors(post) ==
    IF Len(CleanName(post.name)) = 0
    THEN {FieldError("name", "This field is required.")}
    ELSE {}

----------------------------------------------------------------------------
(* Requests. *)

NoPost ==
    [name |-> "", email |-> <<>>, quantity |-> Absent, notes |-> "",
     date |-> Absent, tickets |-> Absent, event_slug |-> "",
     subject |-> <<>>, message |-> "",
     num_vehicles |-> Absent, adults |-> Absent, children |-> Absent]

\* request.user: the visitor who is not logged in, and the accounts of the site.
AnonymousUser == [is_authenticated |-> FALSE, is_superuser |-> FALSE, groups |-> {}]

OwnerUser == [is_authenticated |-> TRUE, is_superuser |-> FALSE, groups |-> {"owner"}]

TechnicalAdminUser ==
    [is_authenticated |-> TRUE, is_superuser |-> FALSE, groups |-> {"technical_admin"}]

SuperUser == [is_authenticated |-> TRUE, is_superuser |-> TRUE, groups |-> {}]

PlainUser == [is_authenticated |-> TRUE, is_superuser |-> FALSE, groups |-> {}]

Users == {AnonymousUser, OwnerUser, TechnicalAdminUser, SuperUser, PlainUser}

\* The test every owner view makes before anything else:
\* request.user.is_superuser or request.user.groups.filter(name='owner').exists()
MayManage(user) == user.is_superuser \/ "owner" \in user.groups

\* login_view: the dashboard a user is sent to after logging in.
DashboardOf(user) ==
    IF user.is_superuser \/ "technical_admin" \in user.groups THEN "tech_dashboard"
    ELSE IF "owner" \in user.groups THEN "owner_dashboard"
    ELSE "home"

\* A model instance before the form has filled it.
NoInstance == [pk |-> None, name |-> <<>>, slug |-> <<>>]

IdleReq ==
    [pc |-> "idle", view |-> "none", id |-> 0, method |-> "GET", slug |-> "",
     POST |-> NoPost, qty |-> 0, cart |-> EmptyDict, items |-> <<>>, total |-> 0, i |-> 0,
     modified |-> FALSE, session_cart |-> EmptyDict, status |-> 0,
     success |-> FALSE, errors |-> {},
     instance |-> NoInstance, slug_base |-> <<>>, counter |-> 0,
     user |-> AnonymousUser, location |-> ""]

\* An owner view as far as its gate: @login_required sends a visitor who is
\* not logged in to the login page, the view sends a user who may not manage
\* the catalog to the home page.
Refused(user) == ~user.is_authenticated \/ ~MayManage(user)

RefusedResponse(view, user) ==
    [IdleReq EXCEPT !.pc = "done", !.view = view, !.method = "POST", !.user = user,
                    !.status = 302,
                    !.location = IF user.is_authenticated THEN "home" ELSE "login"]

\* redirect('owner_dashboard') after form.save()
SavedResponse(view, user) ==
    [IdleReq EXCEPT !.pc = "done", !.view = view, !.method = "POST", !.user = user,
                    !.status = 302, !.success = TRUE, !.location = "owner_dashboard"]

\* The quantity fields a visitor may submit to cart_add.
QuantityInputs ==
    { Absent, <<"a">>, <<"0">>, <<"-", "1">>, <<"2">>, <<"3">> }

JaneEmail == <<"j", "@", "x", ".", "c">>

\* The buyer forms a visitor may submit to cart_view.
ValidBuyer == [NoPost EXCEPT !.name = "Jane", !.email = JaneEmail, !.quantity = <<"1">>]

BuyerPosts ==
    { ValidBuyer,
      [ValidBuyer EXCEPT !.email = <<"j", "a", "n", "e">>],
      [ValidBuyer EXCEPT !.name = ""],
      [ValidBuyer EXCEPT !.quantity = Absent] }

Free(r) == req[r].pc \in {"idle", "done"}

Quiet == \A r \in DOMAIN req : Free(r)

\* The deployment as settings.py leaves it: DJANGO_NOTIFICATION_EMAILS is not
\* set, the list of recipients is empty; nothing has been sent or received.
DefaultMail ==
    /\ NOTIFICATION_EMAILS = <<>>
    /\ outbox = <<>>
    /\ ContactMessage = <<>>
    /\ PreQualificationApplication = <<>>

Init ==
    /\ Product = InitProduct
    /\ Order = <<>>
    /\ session = EmptySession
    /\ req = [r \in ConcReqs |-> IdleReq]
    /\ nreq = 0
    /\ added = [s \in Slugs |-> 0]
    /\ Event = InitEvent
    /\ Booking = <<>>
    /\ Service = {}
    /\ NewsletterSubscriber = {}
    /\ DefaultMail

\* cart_add up to its redirect: 404 without a product of that slug, otherwise
\* the cart read from the session, incremented and put back into the session
\* object of the request.
cart_add(r, slug, post) ==
    /\ Free(r)
    /\ nreq < MaxRequests
    /\ nreq' = nreq + 1
    /\ req' = [req EXCEPT ![r] =
         IF ProductsBySlug(Product, slug) = {}
         THEN [IdleReq EXCEPT !.pc = "respond", !.view = "cart_add", !.id = nreq + 1,
                              !.method = "POST", !.slug = slug, !.POST = post,
                              !.status = 404]
         ELSE [IdleReq EXCEPT !.pc = "respond", !.view = "cart_add", !.id = nreq + 1,
                              !.method = "POST", !.slug = slug, !.POST = post,
                              !.qty = CartAddQty(post),
                              !.cart =
                                  CartAfterAdd(SessionCart(session), slug, CartAddQty(post)),
                              !.session_cart =
                                  CartAfterAdd(SessionCart(session), slug, CartAddQty(post)),
                              !.modified = TRUE,
                              !.status = 302]]
    /\ UNCHANGED <<outbox, siteVars, Product, Order, session, added, Event, Booking>>

\* A subject line: the text the view writes itself and the text it takes from
\* a row or a form.
Subject(fixed, text) == [fixed |-> fixed, text |-> text]

\* forbid_multi_line_headers: a header value with a line break is refused.
HasLineBreak(text) == \E i \in 1..Len(text) : text[i] \in {"\n", "\r"}

\* if recipients: send_mail(subject, body, DEFAULT_FROM_EMAIL, recipients,
\* fail_silently=True).  What becomes of the call: it is not made without
\* recipients; the connection to the mail server fails, which is discarded;
\* the message is built, which raises BadHeaderError for a subject with a
\* line break, outside of what fail_silently covers; the server accepts the
\* message or refuses it, which is discarded.
send_mail(subject) ==
    IF NOTIFICATION_EMAILS = <<>> THEN {"not_called"}
    ELSE {"no_connection"}
         \cup (IF HasLineBreak(subject.text)
               THEN {"BadHeaderError"} ELSE {"sent", "discarded"})

\* The outcomes of send_mail the view does not return from.
Raised == {"BadHeaderError"}

\* A message as send_mail gets it; the lines and the total are those of the
\* combined order.
Message(subject, lines, total) ==
    [subject |-> subject, lines |-> lines, total |-> total, outcome |-> ""]

\* The outbox after a call of send_mail with the message.
Handed(box, message, outcome) ==
    IF outcome = "not_called" THEN box
    ELSE Append(box, [message EXCEPT !.outcome = outcome])

\* cart_view: the summary line of one item, name, quantity and subtotal.
RECURSIVE summary_lines(_)
summary_lines(items) ==
    IF Len(items) = 0 THEN <<>>
    ELSE <<[name |-> items[1].product.name, quantity |-> items[1].quantity,
            subtotal |-> items[1].subtotal]>> \o summary_lines(Tail(items))

\* cart_view up to the checkout branch: the cart is read and resolved, the
\* form is bound; without a checkout the page is rendered.
cart_view(r, method, post) ==
    /\ Free(r)
    /\ nreq < MaxRequests
    /\ nreq' = nreq + 1
    /\ LET cart == SessionCart(session)
           items == ResolveItems(cart, Product)
           base == [IdleReq EXCEPT !.view = "cart_view", !.id = nreq + 1,
                                   !.method = method, !.POST = post,
                                   !.cart = cart, !.items = items, !.total = ItemsTotal(items)]
       IN req' = [req EXCEPT ![r] =
            IF CheckoutRuns(method, items, post)
            THEN [base EXCEPT !.pc = "create", !.i = 1]
            ELSE [base EXCEPT !.pc = "respond", !.status = 200]]
    /\ UNCHANGED <<outbox, siteVars, Product, Order, session, added, Event, Booking>>

\* One Order.objects.create() of the checkout loop; an IntegrityError leaves
\* the view as a 500 response.
checkout_create(r) ==
    /\ req[r].pc = "create"
    /\ req[r].i <= Len(req[r].items)
    /\ LET row == OrderRow(req[r].items[req[r].i], req[r].POST, req[r].id)
       IN IF OrderInsertOK(Product, row)
          THEN /\ Order' = Append(Order, row)
               /\ req' = [req EXCEPT ![r].i = @ + 1]
          ELSE /\ Order' = Order
               /\ req' = [req EXCEPT ![r].pc = "respond", ![r].status = 500]
    /\ UNCHANGED <<outbox, siteVars, Product, session, nreq, added, Event, Booking>>

\* After the loop: the cart of the request's session object is cleared and
\* the page is rendered with success.
checkout_clear(r) ==
    /\ req[r].pc = "create"
    /\ req[r].i > Len(req[r].items)
    /\ \E outcome \in send_mail(Subject("New combined product order", <<>>)) :
          /\ outbox' = Handed(outbox,
                              Message(Subject("New combined product order", <<>>),
                                      summary_lines(req[r].items), req[r].total),
                              outcome)
          /\ req' = IF outcome \in Raised
                    THEN [req EXCEPT ![r].pc = "respond", ![r].status = 500]
                    ELSE [req EXCEPT ![r].pc = "respond",
                                     ![r].session_cart = ClearedCart(SessionCart(session)),
                                     ![r].modified = TRUE,
                                     ![r].success = TRUE,
                                     ![r].items = <<>>,
                                     ![r].total = 0,
                                     ![r].status = 200]
    /\ Len(outbox') <= MaxMail
    /\ UNCHANGED <<siteVars, Product, Order, session, nreq, added, Event, Booking>>

\* SessionMiddleware.process_response: a modified session is written back as
\* a whole unless the response is a 500.
SessionAfterResponse(sess, rq) ==
    IF rq.modified /\ rq.status /= 500
    THEN [hasCart |-> TRUE, cart |-> rq.session_cart]
    ELSE sess

process_response(r) ==
    /\ req[r].pc = "respond"
    /\ session' = SessionAfterResponse(session, req[r])
    /\ req' = [req EXCEPT ![r].pc = "done"]
    /\ added' =
         IF req[r].view = "cart_add" /\ req[r].status = 302
         THEN [added EXCEPT ![req[r].slug] = @ + req[r].qty]
         ELSE IF req[r].view = "cart_view" /\ req[r].success
         THEN [s \in Slugs |-> 0]
         ELSE added
    /\ UNCHANGED <<outbox, siteVars, Product, Order, nreq, Event, Booking>>

\* product_edit by the owner: the URL carries a non-empty slug, the form sets
\* name and in_stock of the product of that slug, and form.save() writes the
\* row as pre_save leaves it.
product_edit(r, user, slug, name, in_stock) ==
    /\ Free(r)
    /\ Len(slug) > 0
    /\ ProductsBySlug(Product, slug) /= {}
    /\ CatalogFormErrors([name |-> name]) = {}
    /\ LET p == First(ProductsBySlug(Product, slug))
           row == pre_save(Product, [p EXCEPT !.name = CleanName(name),
                                              !.in_stock = in_stock])
       IN /\ row /= p
          /\ UniqueSlugOK(Product, row)
          /\ IF Refused(user)
             THEN /\ req' = [req EXCEPT ![r] = RefusedResponse("product_edit", user)]
                  /\ Product' = Product
             ELSE /\ req' = [req EXCEPT ![r] = SavedResponse("product_edit", user)]
                  /\ Product' = (Product \ {p}) \cup {row}
    /\ UNCHANGED <<outbox, siteVars, Order, session, nreq, added, Event, Booking>>

\* Deleting a product in the admin site; its orders go with it (CASCADE).
admin_delete_product(slug) ==
    /\ ProductsBySlug(Product, slug) /= {}
    /\ LET p == First(ProductsBySlug(Product, slug))
       IN /\ Product' = Product \ {p}
          /\ Order' = SelectSeq(Order, LAMBDA o : o.product /= p.pk)
    /\ UNCHANGED <<outbox, siteVars, session, req, nreq, added, Event, Booking>>

\* The ticket counts and booking forms a visitor may submit to event_detail.
NovemberFirst == <<2026, 11, 1>>

ValidBooking ==
    [NoPost EXCEPT !.name = "Jane", !.email = JaneEmail, !.date = NovemberFirst,
                   !.tickets = <<"1">>]

BookingPosts ==
    { [ValidBooking EXCEPT !.tickets = t] : t \in {<<"1">>, <<"3">>} }
    \cup { [ValidBooking EXCEPT !.tickets = <<"a">>],
           [ValidBooking EXCEPT !.email = <<"j", "a", "n", "e">>] }

\* event_detail: 404 without an active event of that slug; a valid POST is
\* checked against the available tickets and saved or rejected; the page is
\* rendered with the form and the success flag.  The session is not touched.
event_detail(r, slug, method, post) ==
    /\ Free(r)
    /\ LET found == ActiveEventsBySlug(Event, slug)
           event == CHOOSE e \in found : TRUE
           base == [IdleReq EXCEPT !.pc = "done", !.view = "event_detail",
                                   !.method = method, !.slug = slug, !.POST = post]
           valid == method = "POST" /\ BookingFormErrors(post) = {}
           row == BookingRow(post, event.pk)
       IN IF found = {}
          THEN /\ req' = [req EXCEPT ![r] = [base EXCEPT !.status = 404]]
               /\ Booking' = Booking
               /\ outbox' = outbox
          ELSE IF ~valid
          THEN /\ req' = [req EXCEPT ![r] =
                    [base EXCEPT !.status = 200,
                                 !.errors = IF method = "POST"
                                            THEN BookingFormErrors(post) ELSE {}]]
               /\ Booking' = Booking
               /\ outbox' = outbox
          ELSE IF ExceedsAvailable(row.tickets, event, Booking)
          THEN /\ req' = [req EXCEPT ![r] =
                    [base EXCEPT !.status = 200,
                                 !.errors = {OnlyAvailableError(event, Booking)}]]
               /\ Booking' = Booking
               /\ outbox' = outbox
          ELSE \E outcome \in send_mail(Subject("New event booking: ", event.title)) :
               /\ Booking' = Append(Booking, row)
               /\ outbox' = Handed(outbox,
                                   Message(Subject("New event booking: ", event.title),
                                           <<>>, 0),
                                   outcome)
               /\ req' = [req EXCEPT ![r] =
                    IF outcome \in Raised THEN [base EXCEPT !.status = 500]
                    ELSE [base EXCEPT !.status = 200, !.success = TRUE]]
    /\ Len(Booking') <= MaxBookings
    /\ Len(outbox') <= MaxMail
    /\ UNCHANGED <<siteVars, cartVars, Event>>

\* The owner sets the status of a booking in the admin site.
admin_set_booking_status(i, status) ==
    /\ i \in DOMAIN Booking
    /\ Booking[i].status /= status
    /\ Booking' = [Booking EXCEPT ![i].status = status]
    /\ UNCHANGED <<outbox, siteVars, cartVars, req, Event>>

\* event_edit by the owner: the URL carries a non-empty slug, the form sets
\* title, capacity and is_active of the event of that slug, and form.save()
\* writes the row as pre_save leaves it.
event_edit(r, user, slug, title, capacity, is_active) ==
    /\ Free(r)
    /\ Len(slug) > 0
    /\ EventsBySlug(Event, slug) /= {}
    /\ EventFormErrors([title |-> title]) = {}
    /\ LET e == CHOOSE x \in EventsBySlug(Event, slug) : TRUE
           row == pre_save_event(Event, [e EXCEPT !.title = CleanName(title),
                                                  !.capacity = capacity,
                                                  !.is_active = is_active])
       IN /\ row /= e
          /\ UniqueSlugOK(Event, row)
          /\ IF Refused(user)
             THEN /\ req' = [req EXCEPT ![r] = RefusedResponse("event_edit", user)]
                  /\ Event' = Event
             ELSE /\ req' = [req EXCEPT ![r] = SavedResponse("event_edit", user)]
                  /\ Event' = (Event \ {e}) \cup {row}
    /\ UNCHANGED <<outbox, siteVars, cartVars, Booking>>

\* The booking forms a visitor may submit to the general booking page, with
\* or without the event_slug field.
GeneralBookingPosts ==
    { [ValidBooking EXCEPT !.tickets = t, !.event_slug = s] :
          t \in {<<"0">>, <<"2">>, <<"-", "1">>}, s \in {"", "harvest-fest"} }

\* booking: a valid POST is saved, attached to the first event of the posted
\* slug if there is one; nothing else is checked.
booking(r, method, post) ==
    /\ Free(r)
    /\ LET base == [IdleReq EXCEPT !.pc = "done", !.view = "booking",
                                   !.method = method, !.POST = post, !.status = 200]
           valid == method = "POST" /\ BookingFormErrors(post) = {}
           found == EventsBySlug(Event, post.event_slug)
           row == BookingRow(post, IF post.event_slug /= "" /\ found /= {}
                                   THEN First(found).pk ELSE None)
       IN IF ~valid
          THEN /\ req' = [req EXCEPT ![r] =
                    [base EXCEPT !.errors = IF method = "POST"
                                            THEN BookingFormErrors(post) ELSE {}]]
               /\ Booking' = Booking
               /\ outbox' = outbox
          ELSE \E outcome \in send_mail(Subject("New booking request", <<>>)) :
               /\ Booking' = Append(Booking, row)
               /\ outbox' = Handed(outbox,
                                   Message(Subject("New booking request", <<>>), <<>>, 0),
                                   outcome)
               /\ req' = [req EXCEPT ![r] =
                    IF outcome \in Raised THEN [base EXCEPT !.status = 500]
                    ELSE [base EXCEPT !.success = TRUE]]
    /\ Len(Booking') <= MaxBookings
    /\ Len(outbox') <= MaxMail
    /\ UNCHANGED <<siteVars, cartVars, Event>>

\* The order forms a visitor may submit to product_detail.
OrderPosts ==
    { [ValidBuyer EXCEPT !.quantity = q] : q \in {<<"0">>, <<"2">>, <<"-", "1">>, Absent} }

\* form.save(commit=False) of the OrderForm with the product attached.
ProductOrderRow(post, product) ==
    [product |-> product.pk, name |-> post.name, email |-> post.email,
     quantity |-> IntOfStr(post.quantity).val, notes |-> post.notes,
     status |-> "pending", req |-> 0]

\* product_detail: 404 without an in-stock product of that slug; a valid POST
\* is saved as an Order of the product.
product_detail(r, slug, method, post) ==
    /\ Free(r)
    /\ LET found == InStockBySlug(Product, slug)
           base == [IdleReq EXCEPT !.pc = "done", !.view = "product_detail",
                                   !.method = method, !.slug = slug, !.POST = post]
       IN IF found = {}
          THEN /\ req' = [req EXCEPT ![r] = [base EXCEPT !.status = 404]]
               /\ Order' = Order
               /\ outbox' = outbox
          ELSE IF method = "POST" /\ OrderFormValid(post)
          THEN \E outcome \in send_mail(Subject("New product order: ", First(found).name)) :
               /\ Order' = Append(Order, ProductOrderRow(post, First(found)))
               /\ outbox' = Handed(outbox,
                                   Message(Subject("New product order: ", First(found).name),
                                           <<>>, 0),
                                   outcome)
               /\ req' = [req EXCEPT ![r] =
                    IF outcome \in Raised THEN [base EXCEPT !.status = 500]
                    ELSE [base EXCEPT !.status = 200, !.success = TRUE]]
          ELSE /\ req' = [req EXCEPT ![r] =
                    [base EXCEPT !.status = 200,
                                 !.errors =
                                     IF method = "POST"
                                     THEN PositiveIntegerFieldErrors("quantity", post.quantity)
                                     ELSE {}]]
               /\ Order' = Order
               /\ outbox' = outbox
    /\ Len(Order') <= MaxOrders
    /\ Len(outbox') <= MaxMail
    /\ UNCHANGED <<siteVars, Product, session, nreq, added, Event, Booking>>

\* The names the owner types into the product and service forms.
Tea == <<"T", "e", "a">>

NameInputs ==
    { Tea, <<" ", "t", "e", "a", "!">>, <<"T", "e", "a", " ", "-", "1">>, <<"!">>, <<" ">> }

\* Requests in flight that are about to insert a product or service row.
Inserting == {r \in DOMAIN req : req[r].pc \in {"lookup", "insert"}}

\* product_create up to the first lookup of _unique_slugify: an invalid form
\* is rendered again; a valid one gives the new instance, whose slug is blank,
\* so that pre_save starts _unique_slugify with the slug of the name.
product_create(r, user, post) ==
    /\ Free(r)
    /\ Cardinality(Product) + Cardinality(Service) + Cardinality(Inserting) < MaxRows
    /\ LET base == [IdleReq EXCEPT !.view = "product_create", !.method = "POST",
                                   !.POST = post, !.user = user]
           name == CleanName(post.name)
       IN req' = [req EXCEPT ![r] =
            IF Refused(user)
            THEN RefusedResponse("product_create", user)
            ELSE IF CatalogFormErrors(post) /= {}
            THEN [base EXCEPT !.pc = "done", !.status = 200,
                              !.errors = CatalogFormErrors(post)]
            ELSE [base EXCEPT !.pc = "lookup",
                              !.instance = [pk |-> None, name |-> name,
                                            slug |-> slugify(name),
                                            price |-> post.price,
                                            in_stock |-> post.in_stock],
                              !.slug_base = slugify(name),
                              !.counter = 1]]
    /\ UNCHANGED <<outbox, siteVars, cartVars, Event, Booking>>

\* service_create up to the first lookup of _unique_slugify.
service_create(r, user, post) ==
    /\ Free(r)
    /\ Cardinality(Product) + Cardinality(Service) + Cardinality(Inserting) < MaxRows
    /\ LET base == [IdleReq EXCEPT !.view = "service_create", !.method = "POST",
                                   !.POST = post, !.user = user]
           name == CleanName(post.name)
       IN req' = [req EXCEPT ![r] =
            IF Refused(user)
            THEN RefusedResponse("service_create", user)
            ELSE IF CatalogFormErrors(post) /= {}
            THEN [base EXCEPT !.pc = "done", !.status = 200,
                              !.errors = CatalogFormErrors(post)]
            ELSE [base EXCEPT !.pc = "lookup",
                              !.instance = [pk |-> None, name |-> name,
                                            slug |-> slugify(name),
                                            price |-> post.price,
                                            is_active |-> post.is_active],
                              !.slug_base = slugify(name),
                              !.counter = 1]]
    /\ UNCHANGED <<outbox, siteVars, cartVars, Event, Booking>>

\* event_create up to the first lookup of _unique_slugify.
event_create(r, user, post) ==
    /\ Free(r)
    /\ Cardinality(Product) + Cardinality(Service) + Cardinality(Event)
           + Cardinality(Inserting) < MaxRows
    /\ LET base == [IdleReq EXCEPT !.view = "event_create", !.method = "POST",
                                   !.POST = post, !.user = user]
           title == CleanName(post.title)
       IN req' = [req EXCEPT ![r] =
            IF Refused(user)
            THEN RefusedResponse("event_create", user)
            ELSE IF EventFormErrors(post) /= {}
            THEN [base EXCEPT !.pc = "done", !.status = 200,
                              !.errors = EventFormErrors(post)]
            ELSE [base EXCEPT !.pc = "lookup",
                              !.instance = [pk |-> None, title |-> title,
                                            slug |-> slugify(title),
                                            capacity |-> post.capacity,
                                            is_active |-> post.is_active],
                              !.slug_base = slugify(title),
                              !.counter = 1]]
    /\ UNCHANGED <<outbox, siteVars, cartVars, Event, Booking>>

\* The table of the model a create request saves to.
TableOf(view) ==
    CASE view = "product_create" -> Product
      [] view = "service_create" -> Service
      [] view = "event_create" -> Event

\* One evaluation of the while condition of _unique_slugify: a taken slug is
\* replaced by the next suffixed one, a free one is assigned to the instance.
unique_slugify_lookup(r) ==
    /\ req[r].pc = "lookup"
    /\ req' = [req EXCEPT ![r] =
         IF SlugTaken(TableOf(req[r].view), req[r].instance.slug, req[r].instance.pk)
         THEN [req[r] EXCEPT !.instance.slug = Suffixed(req[r].slug_base, req[r].counter),
                             !.counter = @ + 1]
         ELSE [req[r] EXCEPT !.pc = "insert"]]
    /\ UNCHANGED <<outbox, siteVars, cartVars, Event, Booking>>

\* Model.save() of the new instance: the INSERT, which the unique index on
\* slug refuses with an IntegrityError (a 500 response); after it the
\* redirect to the dashboard.
save_insert(r) ==
    /\ req[r].pc = "insert"
    /\ LET rows == TableOf(req[r].view)
           row == [req[r].instance EXCEPT !.pk = NextPk(rows)]
           ok == UniqueSlugOK(rows, row)
       IN /\ req' = [req EXCEPT ![r] =
                IF ok THEN [req[r] EXCEPT !.pc = "done", !.status = 302, !.success = TRUE,
                                          !.location = "owner_dashboard",
                                          !.instance = row]
                ELSE [req[r] EXCEPT !.pc = "done", !.status = 500]]
          /\ Product' = IF ok /\ req[r].view = "product_create"
                        THEN Product \cup {row} ELSE Product
          /\ Service' = IF ok /\ req[r].view = "service_create"
                        THEN Service \cup {row} ELSE Service
          /\ Event' = IF ok /\ req[r].view = "event_create"
                      THEN Event \cup {row} ELSE Event
    /\ UNCHANGED <<outbox, mailVars, NewsletterSubscriber, Order, session, nreq, added, Booking>>

\* service_edit by the owner, as product_edit.
service_edit(r, user, slug, name, is_active) ==
    /\ Free(r)
    /\ Len(slug) > 0
    /\ \E s \in Service : s.slug = slug
    /\ CatalogFormErrors([name |-> name]) = {}
    /\ LET s == First({x \in Service : x.slug = slug})
           row == pre_save(Service, [s EXCEPT !.name = CleanName(name),
                                              !.is_active = is_active])
       IN /\ row /= s
          /\ UniqueSlugOK(Service, row)
          /\ IF Refused(user)
             THEN /\ req' = [req EXCEPT ![r] = RefusedResponse("service_edit", user)]
                  /\ Service' = Service
             ELSE /\ req' = [req EXCEPT ![r] = SavedResponse("service_edit", user)]
                  /\ Service' = (Service \ {s}) \cup {row}
    /\ UNCHANGED <<outbox, mailVars, NewsletterSubscriber, cartVars, Event, Booking>>

\* The email fields a visitor may submit to the newsletter form.
SignupEmails ==
    { JaneEmail, <<" ">> \o JaneEmail, <<"a", "@", "x", ".", "c">>, <<"j", "a", "n", "e">> }

\* EmailField.to_python: blanks stripped from both ends.
CleanEmail(email) == RStrip(LStrip(email))

\* NewsletterSubscriber.objects.filter(email=email)
SubscribersByEmail(rows, email) == {x \in rows : x.email = email}

\* NewsletterForm(request.POST).errors: the email is required and valid, and
\* Model.validate_unique finds no subscriber with it.
NewsletterFormErrors(post, rows) ==
    IF Len(CleanEmail(post.email)) = 0
    THEN {FieldError("email", "This field is required.")}
    ELSE IF ~EmailValid(CleanEmail(post.email))
    THEN {FieldError("email", "Enter a valid email address.")}
    ELSE IF SubscribersByEmail(rows, CleanEmail(post.email)) /= {}
    THEN {FieldError("email", "Newsletter subscriber with this Email already exists.")}
    ELSE {}

\* Faulty variant: the table has no unique index on email.
UniqueEmailUnchecked(rows, email) == TRUE

\* The unique index on email: whether inserting a row with the email keeps it.
UniqueEmailOK(rows, email) == SubscribersByEmail(rows, email) = {}

\* newsletter_subscribe up to get_or_create: a GET or an invalid form is
\* rendered without success.
newsletter_subscribe(r, method, post) ==
    /\ Free(r)
    /\ nreq < MaxSignups
    /\ nreq' = nreq + 1
    /\ LET base == [IdleReq EXCEPT !.view = "newsletter_subscribe", !.id = nreq + 1,
                                   !.method = method, !.POST = post]
           errors == NewsletterFormErrors(post, NewsletterSubscriber)
       IN req' = [req EXCEPT ![r] =
            IF method /= "POST"
            THEN [base EXCEPT !.pc = "done", !.status = 200]
            ELSE IF errors /= {}
            THEN [base EXCEPT !.pc = "done", !.status = 200, !.errors = errors]
            ELSE [base EXCEPT !.pc = "get"]]
    /\ UNCHANGED <<outbox, siteVars, Product, Order, session, added, Event, Booking>>

\* get_or_create: the lookup; a subscriber found is returned.
get_or_create_get(r) ==
    /\ req[r].pc = "get"
    /\ req' = [req EXCEPT ![r] =
         IF SubscribersByEmail(NewsletterSubscriber, CleanEmail(req[r].POST.email)) /= {}
         THEN [req[r] EXCEPT !.pc = "done", !.status = 200, !.success = TRUE]
         ELSE [req[r] EXCEPT !.pc = "create"]]
    /\ UNCHANGED <<outbox, siteVars, cartVars, Event, Booking>>

\* get_or_create: the INSERT; on an IntegrityError of the unique index the
\* subscriber that is there is fetched and returned.  Either way the page is
\* rendered with success.
get_or_create_create(r) ==
    /\ req[r].pc = "create"
    /\ LET email == CleanEmail(req[r].POST.email)
       IN NewsletterSubscriber' =
            IF UniqueEmailOK(NewsletterSubscriber, email)
            THEN NewsletterSubscriber \cup
                     {[pk |-> NextPk(NewsletterSubscriber), email |-> email]}
            ELSE NewsletterSubscriber
    /\ req' = [req EXCEPT ![r].pc = "done", ![r].status = 200, ![r].success = TRUE]
    /\ UNCHANGED <<outbox, mailVars, Service, cartVars, Event, Booking>>

RequestStep(r) ==
    \/ \E slug \in Slugs, q \in QuantityInputs :
           cart_add(r, slug, [NoPost EXCEPT !.quantity = q])
    \/ cart_view(r, "GET", NoPost)
    \/ \E post \in BuyerPosts : cart_view(r, "POST", post)
    \/ checkout_create(r)
    \/ checkout_clear(r)
    \/ process_response(r)

CatalogStep ==
    \/ \E p \in Product, in_stock \in BOOLEAN :
           product_edit(1, OwnerUser, p.slug, p.name, in_stock)
    \/ \E slug \in Slugs : admin_delete_product(slug)

\* One request at a time.
Next ==
    \/ \E r \in SeqReqs : RequestStep(r)
    \/ Quiet /\ CatalogStep

Spec == Init /\ [][Next]_vars

\* Requests of the same session overlapping.
NextConc == \E r \in ConcReqs : RequestStep(r)

SpecConc == Init /\ [][NextConc]_vars

\* Event bookings, one request at a time.
NextBooking ==
    \/ \E slug \in EventSlugs, post \in BookingPosts :
           event_detail(1, slug, "POST", post)
    \/ \E slug \in EventSlugs : event_detail(1, slug, "GET", NoPost)
    \/ \E i \in 1..MaxBookings, status \in BOOKING_STATUS_CHOICES :
           admin_set_booking_status(i, status)
    \/ \E slug \in EventSlugs, capacity \in Capacities, is_active \in BOOLEAN :
           \E e \in Event : event_edit(1, OwnerUser, slug, e.title, capacity, is_active)

SpecBooking == Init /\ [][NextBooking]_vars

\* The public forms that store a booking or an order, one request at a time.
NextIntake ==
    \/ \E slug \in EventSlugs, post \in GeneralBookingPosts :
           event_detail(1, slug, "POST", post)
    \/ \E post \in GeneralBookingPosts : booking(1, "POST", post)
    \/ booking(1, "GET", NoPost)
    \/ \E slug \in Slugs, post \in OrderPosts : product_detail(1, slug, "POST", post)
    \/ \E slug \in Slugs : product_detail(1, slug, "GET", NoPost)
    \/ \E i \in 1..MaxBookings, status \in {"pending", "confirmed"} :
           admin_set_booking_status(i, status)

SpecIntake == Init /\ [][NextIntake]_vars

\* ContactForm: name, email and message are required, the subject is not.
ContactFormErrors(post) ==
    (IF post.name = "" THEN {FieldError("name", "This field is required.")} ELSE {})
    \cup (IF EmailValid(post.email) THEN {}
          ELSE {FieldError("email", "Enter a valid email address.")})
    \cup (IF post.message = "" THEN {FieldError("message", "This field is required.")}
          ELSE {})

\* contact: a valid POST is saved and the owners are notified, under the
\* subject of the message if it has one.
contact(r, method, post) ==
    /\ Free(r)
    /\ LET base == [IdleReq EXCEPT !.pc = "done", !.view = "contact",
                                   !.method = method, !.POST = post, !.status = 200]
           valid == method = "POST" /\ ContactFormErrors(post) = {}
           row == [name |-> post.name, email |-> post.email,
                   subject |-> CleanName(post.subject), message |-> post.message,
                   handled |-> FALSE]
           subject == IF Len(row.subject) > 0
                      THEN Subject("", row.subject)
                      ELSE Subject("New message from JAM Mission website", <<>>)
       IN IF ~valid
          THEN /\ req' = [req EXCEPT ![r] =
                    [base EXCEPT !.errors = IF method = "POST"
                                            THEN ContactFormErrors(post) ELSE {}]]
               /\ ContactMessage' = ContactMessage
               /\ outbox' = outbox
          ELSE \E outcome \in send_mail(subject) :
               /\ ContactMessage' = Append(ContactMessage, row)
               /\ outbox' = Handed(outbox, Message(subject, <<>>, 0), outcome)
               /\ req' = [req EXCEPT ![r] =
                    IF outcome \in Raised THEN [base EXCEPT !.status = 500]
                    ELSE [base EXCEPT !.success = TRUE]]
    /\ Len(ContactMessage') <= MaxMessages
    /\ Len(outbox') <= MaxMail
    /\ UNCHANGED <<Service, NewsletterSubscriber, NOTIFICATION_EMAILS,
                   PreQualificationApplication, cartVars, Event, Booking>>

\* PreQualificationForm: the three counts have a default in the model and
\* are required in the form; every other field may stay empty.
PreQualificationFormErrors(post) ==
    PositiveIntegerFieldErrors("num_vehicles", post.num_vehicles)
    \cup PositiveIntegerFieldErrors("adults", post.adults)
    \cup PositiveIntegerFieldErrors("children", post.children)

\* prequalification: a valid POST is saved and the owners are notified.
prequalification(r, method, post) ==
    /\ Free(r)
    /\ LET base == [IdleReq EXCEPT !.pc = "done", !.view = "prequalification",
                                   !.method = method, !.POST = post, !.status = 200]
           valid == method = "POST" /\ PreQualificationFormErrors(post) = {}
           row == [num_vehicles |-> IntOfStr(post.num_vehicles).val,
                   adults |-> IntOfStr(post.adults).val,
                   children |-> IntOfStr(post.children).val,
                   status |-> "pending"]
           subject == Subject("New lease pre-qualification application", <<>>)
       IN IF ~valid
          THEN /\ req' = [req EXCEPT ![r] =
                    [base EXCEPT !.errors = IF method = "POST"
                                            THEN PreQualificationFormErrors(post)
                                            ELSE {}]]
               /\ PreQualificationApplication' = PreQualificationApplication
               /\ outbox' = outbox
          ELSE \E outcome \in send_mail(subject) :
               /\ PreQualificationApplication' = Append(PreQualificationApplication, row)
               /\ outbox' = Handed(outbox, Message(subject, <<>>, 0), outcome)
               /\ req' = [req EXCEPT ![r] =
                    IF outcome \in Raised THEN [base EXCEPT !.status = 500]
                    ELSE [base EXCEPT !.success = TRUE]]
    /\ Len(PreQualificationApplication') <= MaxMessages
    /\ Len(outbox') <= MaxMail
    /\ UNCHANGED <<Service, NewsletterSubscriber, NOTIFICATION_EMAILS,
                   ContactMessage, cartVars, Event, Booking>>

\* A deployment with or without recipients of the notifications.
OwnerMail == <<"o", "@", "x", ".", "c">>

InitNotify ==
    /\ Product = InitProduct
    /\ Order = <<>>
    /\ session = EmptySession
    /\ req = [r \in ConcReqs |-> IdleReq]
    /\ nreq = 0
    /\ added = [s \in Slugs |-> 0]
    /\ Event = InitEvent
    /\ Booking = <<>>
    /\ Service = {}
    /\ NewsletterSubscriber = {}
    /\ NOTIFICATION_EMAILS \in {<<>>, <<OwnerMail>>}
    /\ outbox = <<>>
    /\ ContactMessage = <<>>
    /\ PreQualificationApplication = <<>>

\* The subjects a visitor gives a contact message: none, one line, two lines.
ContactSubjects == {<<>>, <<"H", "i">>, <<"H", "\n", "i">>}

ValidContact ==
    [NoPost EXCEPT !.name = "Jane", !.email = JaneEmail, !.message = "Hello"]

ValidApplication ==
    [NoPost EXCEPT !.num_vehicles = <<"1">>, !.adults = <<"2">>, !.children = <<"0">>]

\* Every form that notifies the owners, one request at a time.
NextNotify ==
    \/ \E slug \in EventSlugs : event_detail(1, slug, "POST", ValidBooking)
    \/ booking(1, "POST", ValidBooking)
    \/ product_detail(1, "fresh-eggs", "POST", [ValidBuyer EXCEPT !.quantity = <<"2">>])
    \/ cart_add(1, "fresh-eggs", [NoPost EXCEPT !.quantity = <<"2">>])
    \/ cart_view(1, "POST", ValidBuyer)
    \/ checkout_create(1)
    \/ checkout_clear(1)
    \/ process_response(1)
    \/ \E subject \in ContactSubjects :
           contact(1, "POST", [ValidContact EXCEPT !.subject = subject])
    \/ contact(1, "POST", [ValidContact EXCEPT !.message = ""])
    \/ prequalification(1, "POST", ValidApplication)
    \/ prequalification(1, "POST", [ValidApplication EXCEPT !.adults = <<"a">>])

SpecNotify == InitNotify /\ [][NextNotify]_vars

\* The cart and its checkout, one request at a time, with or without
\* recipients of the notification.
NextCheckout ==
    \/ \E q \in {<<"2">>, <<"3">>} :
           cart_add(1, "fresh-eggs", [NoPost EXCEPT !.quantity = q])
    \/ cart_add(1, "chicks", [NoPost EXCEPT !.quantity = <<"2">>])
    \/ cart_view(1, "POST", ValidBuyer)
    \/ cart_view(1, "GET", NoPost)
    \/ checkout_create(1)
    \/ checkout_clear(1)
    \/ process_response(1)

SpecCheckout == InitNotify /\ [][NextCheckout]_vars

\* Bookings of an event made on its page, one request at a time, and their
\* statuses set afterwards; the capacity stays as it is.
NextSeats ==
    \/ \E slug \in EventSlugs, post \in BookingPosts :
           event_detail(1, slug, "POST", post)
    \/ \E slug \in EventSlugs : event_detail(1, slug, "GET", NoPost)
    \/ \E i \in 1..MaxBookings, status \in BOOKING_STATUS_CHOICES :
           admin_set_booking_status(i, status)

SpecSeats == Init /\ [][NextSeats]_vars

\* The pages looked up by slug, asked for slugs that exist and one that does
\* not, while the owner takes products out of stock and events off the site.
NoSuchSlug == "no-such"

NextLookup ==
    \/ \E slug \in Slugs \cup {NoSuchSlug} :
           cart_add(1, slug, [NoPost EXCEPT !.quantity = <<"2">>])
    \/ process_response(1)
    \/ \E slug \in EventSlugs \cup {NoSuchSlug} :
           event_detail(1, slug, "POST", ValidBooking)
    \/ \E slug \in Slugs \cup {NoSuchSlug} :
           product_detail(1, slug, "POST", [ValidBuyer EXCEPT !.quantity = <<"2">>])
    \/ \E p \in Product : product_edit(1, OwnerUser, p.slug, p.name, ~p.in_stock)
    \/ \E e \in Event :
           event_edit(1, OwnerUser, e.slug, e.title, e.capacity, ~e.is_active)

SpecLookup == Init /\ [][NextLookup]_vars

\* The owner's product and service forms, filled with one of the names.
CreateStep(r, names) ==
    \/ \E name \in names :
           product_create(r, OwnerUser, [name |-> name, price |-> 500, in_stock |-> TRUE])
    \/ \E name \in names :
           service_create(r, OwnerUser, [name |-> name, price |-> 500, is_active |-> TRUE])
    \/ unique_slugify_lookup(r)
    \/ save_insert(r)

EditStep(r, names) ==
    \/ \E p \in Product, name \in names :
           product_edit(r, OwnerUser, p.slug, name, p.in_stock)
    \/ \E p \in Product : product_edit(r, OwnerUser, p.slug, p.name, ~p.in_stock)
    \/ \E s \in Service, name \in names :
           service_edit(r, OwnerUser, s.slug, name, s.is_active)

\* A site whose catalog is still empty.
InitSlug ==
    /\ Product = {}
    /\ Service = {}
    /\ Order = <<>>
    /\ session = EmptySession
    /\ req = [r \in ConcReqs |-> IdleReq]
    /\ nreq = 0
    /\ added = [s \in Slugs |-> 0]
    /\ Event = InitEvent
    /\ Booking = <<>>
    /\ NewsletterSubscriber = {}
    /\ DefaultMail

\* One owner request at a time.
NextSlug ==
    \/ \E r \in SeqReqs : CreateStep(r, NameInputs)
    \/ Quiet /\ EditStep(1, {Tea})

SpecSlug == InitSlug /\ [][NextSlug]_vars

\* One owner request at a time, and a request that has begun runs on: the
\* view is one thread of control from the form to the redirect.
SpecSlugFair ==
    /\ SpecSlug
    /\ \A r \in SeqReqs : WF_vars(unique_slugify_lookup(r))
    /\ \A r \in SeqReqs : WF_vars(save_insert(r))

\* Owner requests overlapping.
NextSlugConc ==
    \/ \E r \in ConcReqs : CreateStep(r, {Tea, <<"!">>})
    \/ \E r \in ConcReqs : EditStep(r, {Tea, <<"!">>})

SpecSlugConc == InitSlug /\ [][NextSlugConc]_vars

\* The owner views called by every kind of user, one request at a time, on
\* a site whose catalog is still empty.
Milk == <<"M", "i", "l", "k">>

InitOwner ==
    /\ Product = {}
    /\ Service = {}
    /\ Order = <<>>
    /\ session = EmptySession
    /\ req = [r \in ConcReqs |-> IdleReq]
    /\ nreq = 0
    /\ added = [s \in Slugs |-> 0]
    /\ Event = {}
    /\ Booking = <<>>
    /\ NewsletterSubscriber = {}
    /\ DefaultMail

NextOwner ==
    \/ \E user \in Users :
           product_create(1, user, [name |-> Tea, price |-> 500, in_stock |-> TRUE])
    \/ \E user \in Users :
           service_create(1, user, [name |-> Tea, price |-> 500, is_active |-> TRUE])
    \/ \E user \in Users :
           event_create(1, user, [title |-> Tea, capacity |-> 3, is_active |-> TRUE])
    \/ unique_slugify_lookup(1)
    \/ save_insert(1)
    \/ \E user \in Users, p \in Product, name \in {Tea, Milk} :
           product_edit(1, user, p.slug, name, p.in_stock)
    \/ \E user \in Users, s \in Service, name \in {Tea, Milk} :
           service_edit(1, user, s.slug, name, s.is_active)
    \/ \E user \in Users, e \in Event, title \in {Tea, Milk} :
           event_edit(1, user, e.slug, title, e.capacity, e.is_active)

SpecOwner == InitOwner /\ [][NextOwner]_vars

\* Newsletter signups overlapping.
NextNewsletter ==
    \E r \in ConcReqs :
        \/ \E email \in SignupEmails :
               newsletter_subscribe(r, "POST", [NoPost EXCEPT !.email = email])
        \/ newsletter_subscribe(r, "GET", NoPost)
        \/ get_or_create_get(r)
        \/ get_or_create_create(r)

SpecNewsletter == Init /\ [][NextNewsletter]_vars

----------------------------------------------------------------------------
(* Properties of the cart. *)

\* The decimal text of a number 1..9.
DecimalText(n) == <<CHOOSE c \in Digits : DigitVal(c) = n>>

PositiveIntegerText(t) == \E n \in 1..9 : t = DecimalText(n)

\* The cart slugs that resolve to an in-stock product.
Resolving(cart) ==
    {s \in DictKeys(cart) : \E p \in Product : p.slug = s /\ p.in_stock}

RECURSIVE SubtotalSum(_, _)
SubtotalSum(slugs, cart) ==
    IF slugs = {} THEN 0
    ELSE LET s == CHOOSE x \in slugs : TRUE
             p == CHOOSE x \in Product : x.slug = s
         IN p.price * DictGet(cart, s, 0) + SubtotalSum(slugs \ {s}, cart)

\* C1: a finished checkout attempt either succeeded, with all its Orders
\* created and the cart cleared, or left no Order of its own and the cart as
\* it was.
CheckoutAllOrNothing ==
    \A r \in SeqReqs :
        (req[r].view = "cart_view" /\ req[r].method = "POST" /\ req[r].pc = "done") =>
            LET created == IF req[r].i > 0 THEN req[r].i - 1 ELSE 0
            IN \/ /\ req[r].success
                  /\ created >= 1
                  /\ session = [hasCart |-> TRUE, cart |-> EmptyDict]
               \/ /\ ~req[r].success
                  /\ created = 0
                  /\ SessionCart(session) = req[r].cart

\* A checkout that ended in a 500 after creating an Order, the cart not cleared.
PartialCheckoutReached ==
    /\ req[1].view = "cart_view"
    /\ req[1].pc = "done"
    /\ req[1].status = 500
    /\ \E j \in DOMAIN Order : Order[j].req = req[1].id
    /\ session.cart /= EmptyDict

\* C2: when a successful checkout completes, the Orders it created are one
\* per resolved cart entry, each with that product, the cart's quantity, the
\* buyer's name, email and notes and status pending, and the stored cart is
\* the empty mapping.
CheckoutCreatesOneOrderPerItem ==
    [][\A r \in SeqReqs :
        (/\ req[r].pc = "respond"
         /\ req'[r].pc = "done"
         /\ req[r].view = "cart_view"
         /\ req[r].success) =>
            LET mine == {j \in DOMAIN Order' : Order'[j].req = req[r].id}
                cart == req[r].cart
            IN /\ Cardinality(mine) = Cardinality(Resolving(cart))
               /\ Resolving(cart) /= {}
               /\ \A s \in Resolving(cart) : \E j \in mine :
                    /\ \E p \in Product : p.slug = s /\ Order'[j].product = p.pk
                    /\ Order'[j].quantity = DictGet(cart, s, 0)
                    /\ Order'[j].name = req[r].POST.name
                    /\ Order'[j].email = req[r].POST.email
                    /\ Order'[j].notes = req[r].POST.notes
                    /\ Order'[j].status = "pending"
               /\ session' = [hasCart |-> TRUE, cart |-> EmptyDict]
      ]_vars

\* Cart {fresh-eggs: 5} checked out: one Order of quantity 5, cart {}.
CheckoutOfFiveEggsDone ==
    /\ req[1].pc = "done"
    /\ req[1].view = "cart_view"
    /\ req[1].success
    /\ req[1].cart = <<[k |-> "fresh-eggs", v |-> 5]>>
    /\ Len(Order) = 1
    /\ Order[1].quantity = 5
    /\ Order[1].product = 1
    /\ session = [hasCart |-> TRUE, cart |-> EmptyDict]

\* C3: no step of a checkout attempt whose cart has no resolvable entry, or
\* whose buyer form is invalid, changes the Order table or the stored session.
FailedCheckoutChangesNothing ==
    [][\A r \in SeqReqs :
        (/\ req'[r] /= req[r]
         /\ req'[r].view = "cart_view"
         /\ req'[r].method = "POST"
         /\ \/ Resolving(req'[r].cart) = {}
            \/ ~OrderFormValid(req'[r].POST)) =>
            (Order' = Order /\ session' = session)
      ]_vars

\* A valid buyer form posted for a cart whose only entries do not resolve.
UnresolvableCheckoutDone ==
    /\ req[1].pc = "done"
    /\ req[1].view = "cart_view"
    /\ req[1].method = "POST"
    /\ OrderFormValid(req[1].POST)
    /\ req[1].cart /= EmptyDict
    /\ Resolving(req[1].cart) = {}
    /\ ~req[1].success
    /\ session.cart = req[1].cart
    /\ Order = <<>>

\* C4: with every request finished, the stored quantity of each slug is the
\* sum of the quantities added by the cart_add requests since the cart was
\* last cleared.
NoLostIncrement ==
    Quiet => \A s \in Slugs : DictGet(SessionCart(session), s, 0) = added[s]

\* C5: a cart_add of an existing slug with the decimal text of n >= 1 redirects
\* and stores a cart whose quantity for that slug is the stored one (0 if
\* absent) plus n, every other entry as it was.
CartAddIncrements ==
    [][\A r \in SeqReqs : \A n \in 1..9 :
        (/\ req[r].pc = "respond"
         /\ req'[r].pc = "done"
         /\ req[r].view = "cart_add"
         /\ \E p \in Product : p.slug = req[r].slug
         /\ req[r].POST.quantity = DecimalText(n)) =>
            /\ req[r].status = 302
            /\ session'.hasCart
            /\ DictKeys(session'.cart) = DictKeys(SessionCart(session)) \cup {req[r].slug}
            /\ \A s \in Slugs :
                 DictGet(session'.cart, s, 0) =
                     DictGet(SessionCart(session), s, 0) + (IF s = req[r].slug THEN n ELSE 0)
      ]_vars

\* 2 and then 3 fresh-eggs added to an empty cart: quantity 5.
TwoThenThreeIsFive ==
    /\ nreq = 2
    /\ req[1].pc = "done"
    /\ req[1].view = "cart_add"
    /\ req[1].slug = "fresh-eggs"
    /\ req[1].POST.quantity = <<"3">>
    /\ session = [hasCart |-> TRUE, cart |-> <<[k |-> "fresh-eggs", v |-> 5]>>]

\* C6: a cart_add of an existing slug whose quantity field is not the text of
\* a positive integer redirects and contributes exactly 1.
NonPositiveQuantityCountsAsOne ==
    \A r \in SeqReqs :
        (/\ req[r].view = "cart_add"
         /\ req[r].status /= 404
         /\ ~PositiveIntegerText(req[r].POST.quantity)) =>
            (req[r].status = 302 /\ req[r].qty = 1)

\* C7: every entry of the stored cart has a quantity >= 1.
CartQuantitiesPositive ==
    \A i \in DOMAIN session.cart : session.cart[i].v >= 1

\* C8: while a cart page is being served, its items are exactly one per cart
\* slug resolving to an in-stock product, with the cart's quantity and
\* subtotal = price * quantity, and total is the sum of those subtotals.
ResolvedViewMatchesCatalog ==
    \A r \in SeqReqs :
        (/\ req[r].view = "cart_view"
         /\ req[r].pc \in {"create", "respond"}
         /\ ~req[r].success) =>
            LET cart == SessionCart(session)
                items == req[r].items
            IN /\ Len(items) = Cardinality(Resolving(cart))
               /\ \A s \in Resolving(cart) : \E i \in DOMAIN items :
                    /\ items[i].product \in Product
                    /\ items[i].product.slug = s
                    /\ items[i].quantity = DictGet(cart, s, 0)
                    /\ items[i].subtotal = items[i].product.price * DictGet(cart, s, 0)
               /\ req[r].total = SubtotalSum(Resolving(cart), cart)

\* A cart of two entries served with one of them not resolving.
OneOfTwoEntriesResolved ==
    /\ req[1].view = "cart_view"
    /\ req[1].pc = "respond"
    /\ Len(SessionCart(session)) = 2
    /\ Len(req[1].items) = 1
    /\ req[1].total = req[1].items[1].subtotal
    /\ req[1].total > 0

\* C9: resolving the cart, every step of a GET of the cart page, and every
\* catalog change leave the stored session as it is; and every stored entry
\* whose product is in stock when the cart is resolved is among the items
\* with its stored quantity.
ViewingKeepsCart ==
    [][/\ (Product' /= Product => session' = session)
       /\ \A r \in SeqReqs :
            /\ (Free(r) /\ req'[r] /= req[r] /\ req'[r].view = "cart_view") =>
                  /\ session' = session
                  /\ \A s \in Resolving(SessionCart(session)) :
                       \E j \in DOMAIN req'[r].items :
                          /\ req'[r].items[j].product.slug = s
                          /\ req'[r].items[j].quantity = DictGet(SessionCart(session), s, 0)
            /\ (/\ ~Free(r)
                /\ req'[r] /= req[r]
                /\ req[r].view = "cart_view"
                /\ req[r].method = "GET") => session' = session
      ]_vars

\* A cart page served without an entry that stays in the stored cart.
DroppedEntryStillStored ==
    /\ req[1].pc = "done"
    /\ req[1].view = "cart_view"
    /\ req[1].method = "GET"
    /\ req[1].cart = SessionCart(session)
    /\ \E s \in DictKeys(session.cart) :
         /\ s \notin Resolving(session.cart)
         /\ \A j \in DOMAIN req[1].items : req[1].items[j].product.slug /= s

----------------------------------------------------------------------------
(* Properties of event bookings. *)

RECURSIVE TicketsOver(_, _)
TicketsOver(indices, bookings) ==
    IF indices = {} THEN 0
    ELSE LET i == CHOOSE x \in indices : TRUE
         IN bookings[i].tickets + TicketsOver(indices \ {i}, bookings)

\* Tickets of the event's confirmed or paid bookings.
Sold(pk, bookings) ==
    TicketsOver({i \in DOMAIN bookings :
                    bookings[i].event = pk /\ bookings[i].status \in {"confirmed", "paid"}},
                bookings)

Remaining(e, bookings) ==
    IF e.capacity - Sold(e.pk, bookings) > 0 THEN e.capacity - Sold(e.pk, bookings) ELSE 0

\* C10: a valid booking form posted to the page of an active event for more
\* tickets than remain is answered with the single error "Only N tickets are
\* available." on the tickets field, N the remaining count, without success;
\* no Booking row is created and the event's sold tickets stay the same.
OverbookingRejected ==
    [][\A e \in Event : \A n \in 1..9 :
        (/\ req'[1] /= req[1]
         /\ req'[1].view = "event_detail"
         /\ req'[1].method = "POST"
         /\ req'[1].slug = e.slug
         /\ e.is_active
         /\ BookingFormErrors(req'[1].POST) = {}
         /\ req'[1].POST.tickets = DecimalText(n)
         /\ n > Remaining(e, Booking)) =>
            /\ req'[1].errors =
                 {[field |-> "tickets", text |-> "Only {n} tickets are available.",
                   n |-> Remaining(e, Booking)]}
            /\ ~req'[1].success
            /\ Booking' = Booking
            /\ Sold(e.pk, Booking') = Sold(e.pk, Booking)
      ]_vars

\* 3 tickets asked of an event with 2 left: "Only 2 tickets are available."
OnlyTwoLeftRejected ==
    /\ req[1].view = "event_detail"
    /\ req[1].POST.tickets = <<"3">>
    /\ req[1].errors =
         {[field |-> "tickets", text |-> "Only {n} tickets are available.", n |-> 2]}
    /\ ~req[1].success
    /\ Len(Booking) = 1
    /\ Booking[1].status = "confirmed"
    /\ Booking[1].tickets = 1
    /\ \E e \in Event : e.capacity = 3 /\ e.is_active

\* C11: on either booking page, no Booking attached to an event is created
\* for more tickets than the event has available when the form is submitted.
EventBookingWithinAvailable ==
    [][Len(Booking') = Len(Booking) + 1 =>
        \A e \in Event :
            Booking'[Len(Booking')].event = e.pk =>
                Booking'[Len(Booking')].tickets <= Remaining(e, Booking)
      ]_vars

\* The general booking page has stored 2 tickets of an event with 1 left.
GeneralBookingOverAvailable ==
    /\ req[1].view = "booking"
    /\ req[1].success
    /\ Len(Booking) = 2
    /\ Booking[1].status = "confirmed"
    /\ Booking[1].tickets = 2
    /\ Booking[2].tickets = 2
    /\ \E e \in Event : e.capacity = 3 /\ Booking[1].event = e.pk /\ Booking[2].event = e.pk

StoredCountsAtLeastOne ==
    /\ \A i \in DOMAIN Booking : Booking[i].tickets >= 1
    /\ \A i \in DOMAIN Order : Order[i].quantity >= 1

\* tickets=0 and quantity=0 were accepted and stored.
ZeroTicketsAndZeroQuantityStored ==
    /\ \E i \in DOMAIN Booking : Booking[i].tickets = 0
    /\ \E i \in DOMAIN Order : Order[i].quantity = 0

----------------------------------------------------------------------------
(* Properties of slugs. *)

\* The slug of a name, and the slug with the suffix -k.
BaseOf(name) == slugify(RStrip(LStrip(name)))

WithSuffix(base, k) == base \o <<"-">> \o DecimalText(k)

SlugsOf(rows) == {x.slug : x \in rows}

OverlappingCreationsAllStored ==
    \A r \in ConcReqs :
        (/\ req[r].view \in {"product_create", "service_create"}
         /\ req[r].pc = "done"
         /\ req[r].errors = {}) =>
            /\ req[r].status = 302
            /\ \E x \in TableOf(req[r].view) : x.pk = req[r].instance.pk

\* C15: every stored product and service has a non-empty slug, whatever
\* name the form accepted.
SlugsNonEmpty ==
    /\ \A x \in Product : Len(x.slug) > 0
    /\ \A x \in Service : Len(x.slug) > 0

\* The product named "!" is stored with the empty slug.
BangStoredWithEmptySlug ==
    \E x \in Product : x.name = <<"!">> /\ x.slug = <<>>

\* C16: one request at a time, a creation stores the slug of the name if no
\* row of the same table has it, and otherwise that slug with the smallest
\* suffix -1, -2, ... no row of the table has; rows of the other table do
\* not matter.
SequentialSlugIsSmallestFree ==
    [][\A r \in SeqReqs :
        (req[r].pc = "insert" /\ req'[r].pc = "done") =>
            LET rows == TableOf(req[r].view)
                rowsAfter == IF req[r].view = "product_create" THEN Product' ELSE Service'
                base == BaseOf(req[r].POST.name)
                used == SlugsOf(rows)
                expected ==
                    IF base \notin used THEN base
                    ELSE WithSuffix(base,
                             CHOOSE k \in 1..9 :
                                 /\ WithSuffix(base, k) \notin used
                                 /\ \A j \in 1..(k - 1) : WithSuffix(base, j) \in used)
            IN /\ req'[r].status = 302
               /\ \E x \in rowsAfter \ rows :
                      /\ rowsAfter = rows \cup {x}
                      /\ x.slug = expected
      ]_vars

\* The second product named "Tea" got tea-1 while a service has tea too.
SecondTeaProductSuffixedOnce ==
    /\ req[1].view = "product_create"
    /\ req[1].pc = "done"
    /\ req[1].instance.slug = <<"t", "e", "a", "-", "1">>
    /\ SlugsOf(Product) = {<<"t", "e", "a">>, <<"t", "e", "a", "-", "1">>}
    /\ \A x \in Product : x.name = Tea
    /\ SlugsOf(Service) = {<<"t", "e", "a">>}

\* C17: deriving the slug of a stored row again from its unchanged name gives
\* the un-suffixed slug it has, its own row not counting as a collision, and
\* a save that does not rename the row leaves its slug as it is.
RederivedSlugIsOwn ==
    [][/\ \A p \in Product :
            /\ p.slug = BaseOf(p.name) => _unique_slugify(Product, p.pk, p.name) = p.slug
            /\ pre_save(Product, p).slug = p.slug
            /\ \A q \in Product' : (q.pk = p.pk /\ q.name = p.name) => q.slug = p.slug
       /\ \A p \in Service :
            /\ p.slug = BaseOf(p.name) => _unique_slugify(Service, p.pk, p.name) = p.slug
            /\ pre_save(Service, p).slug = p.slug
            /\ \A q \in Service' : (q.pk = p.pk /\ q.name = p.name) => q.slug = p.slug
      ]_vars

\* A product "Tea" with slug tea has been saved out of stock, next to a
\* second "Tea" with slug tea-1, and a product "!" keeps its empty slug.
TeaSavedOutOfStock ==
    /\ \E p \in Product : p.name = Tea /\ p.slug = <<"t", "e", "a">> /\ ~p.in_stock
    /\ \E p \in Product : p.name = Tea /\ p.slug = <<"t", "e", "a", "-", "1">>
    /\ \E p \in Product : p.name = <<"!">> /\ p.slug = <<>>

----------------------------------------------------------------------------
(* Properties of the newsletter signup. *)

Stripped(email) == RStrip(LStrip(email))

WellFormed(email) == EmailValid(Stripped(email))

\* C18: a signup with a well-formed email, new or already subscribed, is
\* answered with success and no error.
SignupAlwaysSucceeds ==
    \A r \in ConcReqs :
        (/\ req[r].view = "newsletter_subscribe"
         /\ req[r].pc = "done"
         /\ req[r].method = "POST"
         /\ WellFormed(req[r].POST.email)) =>
            /\ req[r].success
            /\ req[r].errors = {}

\* The second signup of j@x.c was answered with "already exists".
RepeatedSignupRejected ==
    /\ req[1].view = "newsletter_subscribe"
    /\ req[1].pc = "done"
    /\ req[1].POST.email = JaneEmail
    /\ ~req[1].success
    /\ req[1].errors =
         {[field |-> "email",
           text |-> "Newsletter subscriber with this Email already exists.", n |-> 0]}
    /\ {x.email : x \in NewsletterSubscriber} = {JaneEmail}

\* C19: after any signups with an email, one after the other or overlapping,
\* exactly one subscriber has it; a signup with an email that is already
\* subscribed changes no stored row, and no row is ever lost.
SignupIdempotent ==
    [][/\ \A x, y \in NewsletterSubscriber' : x.email = y.email => x.pk = y.pk
       /\ \A r \in ConcReqs :
            (/\ req'[r].view = "newsletter_subscribe"
             /\ req'[r].pc = "done"
             /\ req'[r].method = "POST"
             /\ WellFormed(req'[r].POST.email)) =>
                Cardinality({x \in NewsletterSubscriber' :
                                x.email = Stripped(req'[r].POST.email)}) = 1
       /\ NewsletterSubscriber \subseteq NewsletterSubscriber'
       /\ \A r \in ConcReqs :
            (/\ req'[r] /= req[r]
             /\ \E x \in NewsletterSubscriber : x.email = Stripped(req'[r].POST.email)) =>
                NewsletterSubscriber' = NewsletterSubscriber
      ]_vars

\* Two overlapping signups of j@x.c both passed the form and the lookup; both
\* ended with success and one row is stored.
OverlappingSignupsOneRow ==
    /\ \A r \in ConcReqs :
           /\ req[r].view = "newsletter_subscribe"
           /\ req[r].pc = "done"
           /\ req[r].success
           /\ Stripped(req[r].POST.email) = JaneEmail
    /\ req[1].id = 1
    /\ req[2].id = 2
    /\ Cardinality(NewsletterSubscriber) = 1

----------------------------------------------------------------------------
(* Properties of the owner views. *)

OwnerViews ==
    {"product_create", "product_edit", "service_create", "service_edit",
     "event_create", "event_edit"}

\* The role of a user is the one the login page acts on.
HasOwnerRole(user) == DashboardOf(user) = "owner_dashboard"

\* C21: a request to an owner view by a user whose role is not owner is
\* answered with a redirect and changes no product, service or event; every
\* change of these tables is made by a user in the owner role.
OnlyOwnerRoleManages ==
    [][/\ (Product' /= Product \/ Service' /= Service \/ Event' /= Event) =>
            HasOwnerRole(req'[1].user)
       /\ (/\ req'[1] /= req[1]
           /\ req'[1].view \in OwnerViews
           /\ ~HasOwnerRole(req'[1].user)) =>
              /\ req'[1].status = 302
              /\ req'[1].location \in {"home", "login"}
              /\ <<Product', Service', Event'>> = <<Product, Service, Event>>
      ]_vars

\* A superuser, whom the login page treats as technical admin, has created
\* a product.
SuperUserCreatedProduct ==
    /\ req[1].view = "product_create"
    /\ req[1].user = SuperUser
    /\ req[1].pc = "done"
    /\ req[1].success
    /\ req[1].location = "owner_dashboard"
    /\ \E p \in Product : p.pk = req[1].instance.pk

\* C26: an edit through the owner forms, renaming included, leaves the slug
\* of the product, service or event as it is, so that a slug keeps referring
\* to the same row; a slug is derived only for a row saved with a blank slug.
EditKeepsSlug ==
    [][/\ \A p \in Product : \A q \in Product' :
            /\ q.pk = p.pk => q.slug = p.slug
            /\ q.slug = p.slug => q.pk = p.pk
       /\ \A p \in Service : \A q \in Service' :
            /\ q.pk = p.pk => q.slug = p.slug
            /\ q.slug = p.slug => q.pk = p.pk
       /\ \A p \in Event : \A q \in Event' :
            /\ q.pk = p.pk => q.slug = p.slug
            /\ q.slug = p.slug => q.pk = p.pk
      ]_vars

\* The product created as "Tea" has been renamed "Milk" by the owner and
\* still has the slug tea.
TeaRenamedMilkKeepsSlug ==
    /\ req[1].view = "product_edit"
    /\ req[1].user = OwnerUser
    /\ req[1].success
    /\ \E p \in Product : p.name = Milk /\ p.slug = <<"t", "e", "a">>


(* Properties of the seats of an event. *)

\* C25: when the bookings of an event are made only on the event's page, one
\* request at a time, and their statuses are set afterwards in any order, the
\* tickets sold of the event never exceed its capacity.
SoldWithinCapacity ==
    \A e \in Event : tickets_sold(e, Booking) <= e.capacity

\* Two bookings of three tickets each, both accepted while pending by an
\* event of capacity three, are both confirmed.
TwoPendingBookingsConfirmed ==
    /\ Len(Booking) = 2
    /\ \A i \in 1..2 : Booking[i].tickets = 3 /\ Booking[i].status = "confirmed"
    /\ \E e \in Event :
          /\ e.capacity = 3
          /\ \A i \in 1..2 : Booking[i].event = e.pk
          /\ tickets_sold(e, Booking) = 6

(* Properties of the slug loop. *)

\* The existence checks the loop of a creation has made: counter - 1 that
\* found the slug taken and, once the loop is left, the one that found it free.
ChecksMade(r) == IF req[r].pc = "lookup" THEN req[r].counter - 1 ELSE req[r].counter

OtherRows(r) == {x \in TableOf(req[r].view) : x.pk /= req[r].instance.pk}

\* C27: with one writer, the loop of _unique_slugify ends; with n other rows
\* of the type it has made at most n + 1 existence checks when it ends, and
\* the slug it assigns is the slug of no other row of the type at that time.
SlugLoopEnds ==
    /\ [](\A r \in SeqReqs :
            /\ req[r].pc = "lookup" => ChecksMade(r) <= Cardinality(OtherRows(r))
            /\ req[r].pc = "insert" =>
                  /\ ChecksMade(r) <= Cardinality(OtherRows(r)) + 1
                  /\ \A x \in OtherRows(r) : x.slug /= req[r].instance.slug)
    /\ \A r \in SeqReqs : (req[r].pc = "lookup") ~> (req[r].pc = "insert")

\* The third product named "Tea" leaves the loop after three checks, two
\* other products existing, with the slug tea-2.
ThirdTeaAfterThreeChecks ==
    /\ req[1].view = "product_create"
    /\ req[1].pc = "insert"
    /\ Cardinality(Product) = 2
    /\ req[1].counter = 3
    /\ req[1].instance.slug = <<"t", "e", "a", "-", "2">>

(* Properties of the lookups by slug. *)

\* C24: a lookup by slug that matches nothing is answered with not-found and
\* the request changes nothing: cart_add for a slug of no product leaves the
\* session cart as it is, event_detail for a slug of no active event stores
\* no booking, product_detail for a slug of no product in stock stores no
\* order.
NotFoundChangesNothing ==
    [][\A r \in SeqReqs :
          req'[r] /= req[r] =>
             /\ (/\ req'[r].view = "cart_add"
                 /\ \A p \in Product : p.slug /= req'[r].slug) =>
                    req'[r].status = 404
             /\ (/\ req'[r].view = "event_detail"
                 /\ \A e \in Event : e.slug = req'[r].slug => ~e.is_active) =>
                    req'[r].status = 404
             /\ (/\ req'[r].view = "product_detail"
                 /\ \A p \in Product : p.slug = req'[r].slug => ~p.in_stock) =>
                    req'[r].status = 404
             /\ req'[r].status = 404 =>
                    /\ session' = session
                    /\ Booking' = Booking
                    /\ Order' = Order
                    /\ <<Product, Event, Service, NewsletterSubscriber>>' =
                           <<Product, Event, Service, NewsletterSubscriber>>
      ]_vars

\* An order for a product that is in the cart and has gone out of stock is
\* answered with not-found; the cart is kept and no order is stored.
OutOfStockOrderNotFound ==
    /\ req[1].view = "product_detail"
    /\ req[1].method = "POST"
    /\ req[1].status = 404
    /\ \E p \in Product : p.slug = req[1].slug /\ ~p.in_stock
    /\ session.hasCart
    /\ Order = <<>>
    /\ \E e \in Event : ~e.is_active

(* Properties of the notifications. *)

\* The orders a checkout has stored.
OrdersOf(id, orders) == SelectSeq(orders, LAMBDA o : o.req = id)

RECURSIVE SumSubtotals(_)
SumSubtotals(lines) ==
    IF Len(lines) = 0 THEN 0 ELSE lines[1].subtotal + SumSubtotals(Tail(lines))

\* A message is the combined order of the orders: one line per order, with
\* the product's name, the quantity and price times quantity, and their sum.
IsCombinedOrder(m, orders) ==
    /\ m.subject.fixed = "New combined product order"
    /\ Len(m.lines) = Len(orders)
    /\ \A i \in 1..Len(orders) :
          /\ m.lines[i].quantity = orders[i].quantity
          /\ \E p \in Product :
                /\ p.pk = orders[i].product
                /\ p.name = m.lines[i].name
                /\ m.lines[i].subtotal = p.price * orders[i].quantity
    /\ m.total = SumSubtotals(m.lines)

\* C22: the step that ends a cart checkout with success hands exactly one
\* combined-order message to the mail backend, with one line per order of the
\* checkout and their total; no other step of a cart request, and so no
\* checkout without orders, hands over any.
CheckoutEmitsOneNotification ==
    [][\A r \in SeqReqs :
          (req'[r] /= req[r] /\ req'[r].view = "cart_view") =>
             IF req[r].pc = "create" /\ req'[r].success
             THEN /\ Len(outbox') = Len(outbox) + 1
                  /\ SubSeq(outbox', 1, Len(outbox)) = outbox
                  /\ IsCombinedOrder(outbox'[Len(outbox')], OrdersOf(req'[r].id, Order'))
             ELSE outbox' = outbox
      ]_vars

\* Without recipients in the settings a checkout of five eggs has succeeded
\* and nothing was handed to the mail backend.
CheckoutDoneNothingSent ==
    /\ NOTIFICATION_EMAILS = <<>>
    /\ req[1].view = "cart_view"
    /\ req[1].pc = "done"
    /\ req[1].success
    /\ Len(OrdersOf(req[1].id, Order)) = 1
    /\ Order[1].quantity = 5
    /\ outbox = <<>>

\* The rows of the table a view stores its submission in.
StoredBy(view, bookings, orders, messages, applications) ==
    CASE view \in {"event_detail", "booking"} -> Len(bookings)
      [] view \in {"product_detail", "cart_view"} -> Len(orders)
      [] view = "contact" -> Len(messages)
      [] view = "prequalification" -> Len(applications)

\* C23: whatever becomes of the notification, the request that hands it to
\* the mail backend ends as it does when the mail is sent: with success
\* reported, not as an error, with its rows stored and, for a checkout, the
\* cart cleared.
DispatchNeverFailsRequest ==
    [][\A r \in SeqReqs :
          outbox' /= outbox =>
             /\ req'[r].success
             /\ req'[r].status = 200
             /\ StoredBy(req'[r].view, Booking', Order', ContactMessage',
                         PreQualificationApplication') > 0
             /\ req'[r].view = "cart_view" =>
                   /\ req'[r].modified
                   /\ req'[r].session_cart = EmptyDict
      ]_vars

\* A contact message with a subject of two lines is stored and its request
\* has ended as a server error.
TwoLineSubjectFailsRequest ==
    /\ req[1].view = "contact"
    /\ req[1].pc = "done"
    /\ req[1].status = 500
    /\ ~req[1].success
    /\ Len(ContactMessage) = 1
    /\ HasLineBreak(ContactMessage[1].subject)
    /\ Len(outbox) > 0
    /\ outbox[Len(outbox)].outcome = "BadHeaderError"
====
